---------------------------- MODULE Spec2Model ----------------------------
(***************************************************************************)
(* The intraday Strategy Selection Engine of                               *)
(* frontend/src/components/StrategySelector.tsx: a React function          *)
(* component whose state is the sample buffer, the option-chain snapshot,  *)
(* the derived signals, the four scores, the selected strategy and the     *)
(* recommendation, driven by one useEffect (activation check + 60 s        *)
(* interval) and two fetch handlers.                                       *)
(*                                                                         *)
(* Numbers.  JavaScript numbers are IEEE doubles.  Prices, strikes, OI,    *)
(* volumes and IVs are modelled as integers, deltas as integer hundredths, *)
(* and every derived quotient as an exact rational [n, d] (d > 0) kept in  *)
(* lowest terms; [n |-> 0, d |-> 0] is NaN (0/0), every comparison with    *)
(* which is false, as in JavaScript.  Realized volatility is kept in       *)
(* hundredths of a vol point (log returns taken to the nearest basis       *)
(* point).                                                                 *)
(***************************************************************************)
EXTENDS Integers, Sequences, FiniteSets, TLC

VARIABLES
  now,              \* wall clock as getHours()*100 + getMinutes()
  sinceTick,        \* minute boundaries passed since the interval was armed / last fired
  effectPending,    \* the useEffect is scheduled (mount, or isActive changed)
  interval,         \* an interval timer is installed
  cIsActive,        \* isActive as captured by the installed interval callback
  cMarketData,      \* marketData as captured by that callback's computeSignals
  cOptionChain,     \* optionChain as captured by that callback's computeSignals
  inFlight,         \* option-chain fetches awaiting their response
  isActive,         \* useState isActive
  timeRemaining,    \* useState timeRemaining
  marketData,       \* useState marketData (the sample buffer)
  optionChain,      \* useState optionChain (the chain snapshot)
  signals,          \* useState signals
  scores,           \* useState scores
  recommendation,   \* useState recommendation
  selectedStrategy, \* useState selectedStrategy
  appended,         \* history: every sample ever handed to setMarketData, in order
  lastOp            \* history: the handler that ran last, and what it did

vars == <<now, sinceTick, effectPending, interval, cIsActive, cMarketData,
          cOptionChain, inFlight, isActive, timeRemaining, marketData,
          optionChain, signals, scores, recommendation, selectedStrategy,
          appended, lastOp>>

timerVars == <<now, sinceTick, effectPending, interval, cIsActive,
               cMarketData, cOptionChain, inFlight, isActive, timeRemaining>>

outVars == <<signals, scores, recommendation, selectedStrategy>>

---------------------------------------------------------------------------
(* Bounds of the exploration                                               *)

\* last minute code the clock reaches
MaxNow == 947
\* longest buffer built by the direct-invocation specifications
MaxLen == 3
\* samples appended to a buffer that is one short of its capacity
MaxLate == 3

(* Program constants                                                       *)

\* first minute code of the activation window (currentTime >= 915)
WindowStart == 915
\* last minute code of the activation window (currentTime <= 945)
WindowEnd == 945
\* buffer capacity: [...prev.slice(-29), mockData]
Capacity == 30

Null == [null |-> TRUE]

---------------------------------------------------------------------------
(* Numbers                                                                 *)

RECURSIVE GCD(_, _)
GCD(a, b) == IF b = 0 THEN a ELSE GCD(b, a % b)

AbsI(x) == IF x < 0 THEN -x ELSE x

NaN == [n |-> 0, d |-> 0]

IsNaN(a) == a.d = 0

\* the quotient n/d of two integers, d >= 0; 0/0 is NaN
Q(n, d) ==
  IF d = 0 THEN NaN
  ELSE LET g == GCD(AbsI(n), d) IN [n |-> n \div g, d |-> d \div g]

QMul(a, b) == IF IsNaN(a) \/ IsNaN(b) THEN NaN ELSE Q(a.n * b.n, a.d * b.d)
QSub(a, b) == IF IsNaN(a) \/ IsNaN(b) THEN NaN ELSE Q(a.n * b.d - b.n * a.d, a.d * b.d)
QAbs(a) == [n |-> AbsI(a.n), d |-> a.d]
QLt(a, b) == ~IsNaN(a) /\ ~IsNaN(b) /\ a.n * b.d < b.n * a.d
QLe(a, b) == ~IsNaN(a) /\ ~IsNaN(b) /\ a.n * b.d <= b.n * a.d
QGt(a, b) == QLt(b, a)
QGe(a, b) == QLe(b, a)

\* floor of the square root
RECURSIVE ISqrtIn(_, _, _)
ISqrtIn(x, lo, hi) ==
  IF lo >= hi THEN lo
  ELSE LET mid == (lo + hi + 1) \div 2
       IN IF mid * mid <= x THEN ISqrtIn(x, mid, hi) ELSE ISqrtIn(x, lo, mid - 1)

ISqrt(x) == ISqrtIn(x, 0, 40000)

\* Math.log(a / b) in basis points, to the nearest one (a, b > 0)
LogReturnBp(a, b) ==
  IF a >= b THEN (20000 * (a - b) + (a + b) \div 2) \div (a + b)
  ELSE -((20000 * (b - a) + (a + b) \div 2) \div (a + b))

\* Math.round(x * k / 100) for x >= 0: halves round up
RoundPct(x, k) == (x * k + 50) \div 100

\* a slip in the range: the opening spot is taken for the high
RECURSIVE SeqMax_first(_)
SeqMax_first(s) == s[1]

RECURSIVE SeqMax(_)
SeqMax(s) == IF Len(s) = 1 THEN s[1]
             ELSE LET m == SeqMax(Tail(s)) IN IF s[1] > m THEN s[1] ELSE m

\* a slip in the fold: the larger element is kept
RECURSIVE SeqMin_larger(_)
SeqMin_larger(s) == IF Len(s) = 1 THEN s[1]
                    ELSE LET m == SeqMin_larger(Tail(s)) IN IF s[1] > m THEN s[1] ELSE m

RECURSIVE SeqMin(_)
SeqMin(s) == IF Len(s) = 1 THEN s[1]
             ELSE LET m == SeqMin(Tail(s)) IN IF s[1] < m THEN s[1] ELSE m

RECURSIVE SeqSum(_)
SeqSum(s) == IF s = <<>> THEN 0 ELSE s[1] + SeqSum(Tail(s))

Max2(a, b) == IF a > b THEN a ELSE b

\* Array.prototype.slice(-k): the last k elements (all of them if fewer)
SliceLast(s, k) == IF Len(s) <= k THEN s ELSE SubSeq(s, Len(s) - k + 1, Len(s))

\* Array.prototype.slice(0, -k): all but the last k elements
SliceButLast(s, k) == IF Len(s) <= k THEN <<>> ELSE SubSeq(s, 1, Len(s) - k)

---------------------------------------------------------------------------
(* Chain look-ups                                                          *)

\* optionChain.find(opt => opt.strike === strike): index of the first such row, 0 if none
FindRow(chain, strike) ==
  IF \E i \in 1..Len(chain) : chain[i].strike = strike
  THEN CHOOSE i \in 1..Len(chain) :
         /\ chain[i].strike = strike
         /\ \A j \in 1..(i - 1) : chain[j].strike # strike
  ELSE 0

\* a slip in the comparison: a later row at the same distance replaces the earlier
RECURSIVE ATMReduce_lastTie(_, _, _, _)
ATMReduce_lastTie(chain, i, closest, spot) ==
  IF i > Len(chain) THEN closest
  ELSE ATMReduce_lastTie(chain, i + 1,
                         IF AbsI(chain[i].strike - spot) <= AbsI(closest - spot)
                         THEN chain[i].strike ELSE closest,
                         spot)

RECURSIVE ATMReduce(_, _, _, _)
ATMReduce(chain, i, closest, spot) ==
  IF i > Len(chain) THEN closest
  ELSE ATMReduce(chain, i + 1,
                 IF AbsI(chain[i].strike - spot) < AbsI(closest - spot)
                 THEN chain[i].strike ELSE closest,
                 spot)

findATMStrike(chain, spot) ==
  ATMReduce(chain, 1,
            IF Len(chain) > 0 /\ chain[1].strike # 0 THEN chain[1].strike ELSE spot,
            spot)

\* delta of a row as findStrikeByDelta reads it (hundredths)
LegDelta(row, type) == IF type = "call" THEN row.call.delta ELSE AbsI(row.put.delta)

\* index of the row findStrikeByDelta returns, 0 for null
findStrikeByDelta(chain, targetDelta, type) ==
  IF \E i \in 1..Len(chain) : AbsI(LegDelta(chain[i], type) - targetDelta) < 5
  THEN CHOOSE i \in 1..Len(chain) :
         /\ AbsI(LegDelta(chain[i], type) - targetDelta) < 5
         /\ \A j \in 1..(i - 1) : ~(AbsI(LegDelta(chain[j], type) - targetDelta) < 5)
  ELSE 0

TotalOI(chain, strike) ==
  LET k == FindRow(chain, strike)
  IN IF k = 0 THEN 0 ELSE chain[k].call.oi + chain[k].put.oi

\* a slip in the sum: the put side's open interest is left out
RECURSIVE MaxOIReduce_callOnly(_, _, _)
MaxOIReduce_callOnly(chain, i, maxStrike) ==
  IF i > Len(chain) THEN maxStrike
  ELSE MaxOIReduce_callOnly(chain, i + 1,
                   IF chain[i].call.oi > TotalOI(chain, maxStrike)
                   THEN chain[i].strike ELSE maxStrike)

RECURSIVE MaxOIReduce(_, _, _)
MaxOIReduce(chain, i, maxStrike) ==
  IF i > Len(chain) THEN maxStrike
  ELSE MaxOIReduce(chain, i + 1,
                   IF chain[i].call.oi + chain[i].put.oi > TotalOI(chain, maxStrike)
                   THEN chain[i].strike ELSE maxStrike)

findMaxOIStrike(chain) ==
  MaxOIReduce(chain, 1, IF Len(chain) > 0 THEN chain[1].strike ELSE 0)

---------------------------------------------------------------------------
(* computeSignals: the Signals record                                      *)

\* log returns between consecutive samples, in basis points
Returns(md) == [i \in 1..(Len(md) - 1) |-> LogReturnBp(md[i + 1].spot, md[i].spot)]

\* sqrt(sum(r*r) / returns.length) * sqrt(390) * 100, in hundredths of a vol point
RealizedVol(md) ==
  LET r == Returns(md)
      sq == [i \in 1..Len(r) |-> r[i] * r[i]]
  IN IF Len(r) > 0 THEN Q(ISqrt((390 * SeqSum(sq)) \div Len(r)), 100) ELSE Q(0, 1)

\* a slip in the placeholder: the back IV is 0.80 of the front IV
backIV_80(frontIV) == frontIV * 80

\* backIV = frontIV * 0.85, in hundredths
backIV(frontIV) == frontIV * 85

\* a slip in the spread: the put quotes are left out of the average
AtmSpread_callOnly(chain, atm) ==
  IF atm # 0
  THEN Q(chain[atm].call.ask - chain[atm].call.bid, 2)
  ELSE Q(999, 1)

\* atmSpread of computeSignals, atm being the index of the ATM row (0 if none)
AtmSpread(chain, atm) ==
  IF atm # 0
  THEN Q(chain[atm].call.ask - chain[atm].call.bid
         + chain[atm].put.ask - chain[atm].put.bid, 2)
  ELSE Q(999, 1)

\* the record computeSignals builds from the buffer and the chain it reads
\* (md has at least 2 samples, chain at least one row, spots are positive)
newSignals(md, chain) ==
  LET currentSpot == md[Len(md)].spot
      spotOpen == md[1].spot
      spots == [i \in 1..Len(md) |-> md[i].spot]
      ORH == SeqMax(spots)
      ORL == SeqMin(spots)
      atmStrike == findATMStrike(chain, currentSpot)
      atm == FindRow(chain, atmStrike)
      frontIV == IF atm # 0 THEN chain[atm].call.iv ELSE 0
      call25 == findStrikeByDelta(chain, 25, "call")
      put25 == findStrikeByDelta(chain, 25, "put")
      maxOIStrike == findMaxOIStrike(chain)
      atmSpread == AtmSpread(chain, atm)
  IN [ OR_width_pct  |-> Q((ORH - ORL) * 100, spotOpen),
       EM_pct        |-> IF atm # 0
                         THEN Q((chain[atm].call.ltp + chain[atm].put.ltp) * 100, currentSpot)
                         ELSE Q(0, 1),
       FB_ratio      |-> Q(frontIV * 100, backIV(frontIV)),
       RR25          |-> Q((IF call25 # 0 THEN chain[call25].call.iv ELSE 0)
                           - (IF put25 # 0 THEN chain[put25].put.iv ELSE 0), 1),
       rv_30m_volpts |-> RealizedVol(md),
       pin_strike    |-> maxOIStrike,
       pin_dist_pct  |-> Q(AbsI(currentSpot - maxOIStrike) * 100, currentSpot),
       liquidity_ok  |-> QLe(atmSpread, Q(2, 1)),
       ORH           |-> ORH,
       ORL           |-> ORL,
       spot_open     |-> spotOpen,
       current_spot  |-> currentSpot ]

---------------------------------------------------------------------------
(* checkBreakout, computeStrategyScores                                    *)

Volumes(md) == [i \in 1..Len(md) |-> md[i].volume]

checkBreakout(sig, md) ==
  LET avgVolume == Q(SeqSum(Volumes(SliceButLast(md, 5))), Max2(Len(md) - 5, 1))
      recentVolume == Q(SeqSum(Volumes(SliceLast(md, 5))), 5)
      volumeSurge == QGe(recentVolume, QMul(Q(2, 1), avgVolume))
  IN IF sig.current_spot * 10000 > sig.ORH * 10015 /\ volumeSurge
     THEN [hasBreakout |-> TRUE, direction |-> "up"]
     ELSE IF sig.current_spot * 10000 < sig.ORL * 9985 /\ volumeSurge
     THEN [hasBreakout |-> TRUE, direction |-> "down"]
     ELSE [hasBreakout |-> FALSE, direction |-> "null"]

\* the += of one "if (cond) scores.X += k"
Pts(cond, k) == IF cond THEN k ELSE 0

\* A) Expiry Iron Fly
ScoreA(sig) ==
  Pts(QGe(sig.FB_ratio, Q(115, 100)), 1)
  + Pts(QLe(sig.EM_pct, QMul(Q(11, 10), sig.OR_width_pct)), 1)
  + Pts(QLe(sig.pin_dist_pct, Q(35, 100))
        \/ QLt(sig.rv_30m_volpts, QMul(sig.FB_ratio, Q(10, 1))), 1)
  + Pts(QGe(QAbs(sig.RR25), Q(2, 1)), -1)

\* a slip in the alignment rule: the direction test is dropped
ScoreB_aligned(sig, md) ==
  LET breakout == checkBreakout(sig, md)
  IN Pts(breakout.hasBreakout, 1)
     + Pts(QGt(sig.RR25, Q(0, 1)), 1)
     + Pts(breakout.direction = "down" /\ QLt(sig.RR25, Q(0, 1)), 1)
     + Pts(QLe(sig.FB_ratio, Q(110, 100)), 1)
     + Pts(QGe(sig.EM_pct, QMul(Q(13, 10), sig.OR_width_pct)), 1)

\* B) ORB + ITM Long
ScoreB(sig, md) ==
  LET breakout == checkBreakout(sig, md)
  IN Pts(breakout.hasBreakout, 1)
     + Pts(breakout.direction = "up" /\ QGt(sig.RR25, Q(0, 1)), 1)
     + Pts(breakout.direction = "down" /\ QLt(sig.RR25, Q(0, 1)), 1)
     + Pts(QLe(sig.FB_ratio, Q(110, 100)), 1)
     + Pts(QGe(sig.EM_pct, QMul(Q(13, 10), sig.OR_width_pct)), 1)

\* a slip in the calendar table: the term-structure rule adds 1 instead of 2
ScoreC_plus1(sig) ==
  Pts(QGe(sig.FB_ratio, Q(120, 100)), 1)
  + Pts(QLe(sig.pin_dist_pct, Q(30, 100)) \/ QLt(sig.rv_30m_volpts, Q(15, 1)), 1)
  + Pts(QGe(sig.OR_width_pct, Q(9, 10)), -1)

\* C) ATM Double-Calendar
ScoreC(sig) ==
  Pts(QGe(sig.FB_ratio, Q(120, 100)), 2)
  + Pts(QLe(sig.pin_dist_pct, Q(30, 100)) \/ QLt(sig.rv_30m_volpts, Q(15, 1)), 1)
  + Pts(QGe(sig.OR_width_pct, Q(9, 10)), -1)

\* D) Delta-Hedged Short Straddle
ScoreD(sig) ==
  LET ivRvDiff == QSub(QMul(sig.FB_ratio, Q(15, 1)), sig.rv_30m_volpts)
  IN Pts(QGe(ivRvDiff, Q(3, 1)), 2)
     + Pts(QLe(sig.EM_pct, QMul(Q(11, 10), sig.OR_width_pct)), 1)
     + Pts(QGe(QAbs(sig.RR25), Q(2, 1)), -1)

\* the StrategyScores record computeStrategyScores stores
computeStrategyScores(sig, md) ==
  [A |-> ScoreA(sig), B |-> ScoreB(sig, md), C |-> ScoreC(sig), D |-> ScoreD(sig)]

---------------------------------------------------------------------------
(* constructTrade, selectBestStrategy                                      *)

Leg(type, opt, strike, dte) == [type |-> type, opt |-> opt, strike |-> strike, dte |-> dte]

\* a slip in the wings: the put wing mirrors the call wing's factor
IronFlyLegs_wings(atmStrike) ==
  << Leg("SELL", "CALL", atmStrike, "today"),
     Leg("SELL", "PUT", atmStrike, "today"),
     Leg("BUY", "CALL", RoundPct(atmStrike, 101), "today"),
     Leg("BUY", "PUT", RoundPct(atmStrike, 101), "today") >>

\* the four legs of case 'A'
IronFlyLegs(atmStrike) ==
  << Leg("SELL", "CALL", atmStrike, "today"),
     Leg("SELL", "PUT", atmStrike, "today"),
     Leg("BUY", "CALL", RoundPct(atmStrike, 101), "today"),
     Leg("BUY", "PUT", RoundPct(atmStrike, 99), "today") >>

\* a slip in the expiries: the bought and the sold expiry are exchanged
CalendarLegs_expiries(atmStrike) ==
  << Leg("BUY", "CALL", atmStrike, "today"),
     Leg("BUY", "PUT", atmStrike, "today"),
     Leg("SELL", "CALL", atmStrike, "next_week"),
     Leg("SELL", "PUT", atmStrike, "next_week") >>

\* the four legs of case 'C'
CalendarLegs(atmStrike) ==
  << Leg("BUY", "CALL", atmStrike, "next_week"),
     Leg("BUY", "PUT", atmStrike, "next_week"),
     Leg("SELL", "CALL", atmStrike, "today"),
     Leg("SELL", "PUT", atmStrike, "today") >>

\* a slip in the order: the put is written before the call
StraddleLegs_putFirst(atmStrike) ==
  << Leg("SELL", "PUT", atmStrike, "today"),
     Leg("SELL", "CALL", atmStrike, "today") >>

\* the two legs of case 'D'
StraddleLegs(atmStrike) ==
  << Leg("SELL", "CALL", atmStrike, "today"),
     Leg("SELL", "PUT", atmStrike, "today") >>

\* the recommendation constructTrade stores for strategy "A".."D"
constructTrade(strategy, sig, chain, md) ==
  LET atmStrike == findATMStrike(chain, sig.current_spot)
  IN CASE strategy = "A" ->
            [ strategy |-> "Expiry Iron Fly",
              legs |-> IronFlyLegs(atmStrike),
              exits |-> [ tp |-> "+35-50% of net credit",
                          sl |-> "spot trend >0.8% from entry OR -1.5x credit",
                          notes |-> "Entry: 09:25-09:50 on pullback" ],
              risk |-> [max_loss_R |-> Q(5, 10)] ]
       [] strategy = "B" ->
            LET breakout == checkBreakout(sig, md)
                itm70 == IF breakout.direction = "up"
                         THEN findStrikeByDelta(chain, 75, "call")
                         ELSE findStrikeByDelta(chain, 75, "put")
            IN [ strategy |-> "ORB + ITM Long",
                 legs |-> << Leg("BUY",
                                 IF breakout.direction = "up" THEN "CALL" ELSE "PUT",
                                 IF itm70 # 0 /\ chain[itm70].strike # 0
                                 THEN chain[itm70].strike ELSE atmStrike,
                                 "today") >>,
                 exits |-> [ tp |-> "+40-60% partial, trail with VWAP",
                             sl |-> "-30% premium OR back inside OR",
                             notes |-> "Max 2 attempts per day" ],
                 risk |-> [max_loss_R |-> Q(3, 10)] ]
       [] strategy = "C" ->
            [ strategy |-> "ATM Double-Calendar",
              legs |-> CalendarLegs(atmStrike),
              exits |-> [ tp |-> "FB_ratio<=1.10 OR M2M>=+30%",
                          sl |-> "abs(spot-ATM)/spot >= 0.7%",
                          notes |-> "Skip if spreads>2 ticks" ],
              risk |-> [max_loss_R |-> Q(5, 10)] ]
       [] strategy = "D" ->
            [ strategy |-> "Delta-Hedged Short Straddle",
              legs |-> StraddleLegs(atmStrike),
              exits |-> [ tp |-> "+25-40% of credit",
                          sl |-> "Hard stop -1R including hedge slippage",
                          notes |-> "Delta-hedge on +-0.10 delta drift" ],
              risk |-> [max_loss_R |-> Q(1, 1)] ]

MaxScore(sc) == Max2(Max2(sc.A, sc.B), Max2(sc.C, sc.D))

\* a slip in the chain: B is tested before A
FirstAtMax_swapped(sc) ==
  LET maxScore == MaxScore(sc)
  IN IF sc.B = maxScore THEN "B"
     ELSE IF sc.A = maxScore THEN "A"
     ELSE IF sc.C = maxScore THEN "C"
     ELSE "D"

\* a slip in the chain: the archetypes are tested from D back to A
FirstAtMax_reversed(sc) ==
  LET maxScore == MaxScore(sc)
  IN IF sc.D = maxScore THEN "D"
     ELSE IF sc.C = maxScore THEN "C"
     ELSE IF sc.B = maxScore THEN "B"
     ELSE "A"

\* the strategy letter the if / else-if chain picks
FirstAtMax(sc) ==
  LET maxScore == MaxScore(sc)
  IN IF sc.A = maxScore THEN "A"
     ELSE IF sc.B = maxScore THEN "B"
     ELSE IF sc.C = maxScore THEN "C"
     ELSE "D"

\* a slip in the gate: an illiquid market alone no longer blocks the trade
NoTradeGate_and(sc, sig) == MaxScore(sc) < 2 /\ ~sig.liquidity_ok

\* a slip in the gate: liquidity is not looked at
NoTradeGate_scoreOnly(sc, sig) == MaxScore(sc) < 2

\* the early return of selectBestStrategy
NoTradeGate(sc, sig) == MaxScore(sc) < 2 \/ ~sig.liquidity_ok

\* the values selectBestStrategy leaves in selectedStrategy and recommendation
selectBestStrategy(sc, sig, chain, md) ==
  IF NoTradeGate(sc, sig)
  THEN [selectedStrategy |-> "NO-TRADE", recommendation |-> Null]
  ELSE [selectedStrategy |-> FirstAtMax(sc),
        recommendation |-> constructTrade(FirstAtMax(sc), sig, chain, md)]

---------------------------------------------------------------------------
(* computeSignals as a whole, fetchMarketData                              *)

\* a slip in the guard: one sample is taken to be enough
InsufficientData_one(md, chain) == Len(md) < 1 \/ Len(chain) = 0

\* the early return of computeSignals
InsufficientData(md, chain) == Len(md) < 2 \/ Len(chain) = 0

\* a slip in the NO-TRADE branch: the recommendation stored earlier is kept
computeSignals_sticky(md, chain, prev) ==
  IF InsufficientData(md, chain) THEN prev
  ELSE LET sig == newSignals(md, chain)
           sc == computeStrategyScores(sig, md)
           sel == selectBestStrategy(sc, sig, chain, md)
       IN [ signals |-> sig,
            scores |-> sc,
            selectedStrategy |-> sel.selectedStrategy,
            recommendation |-> IF sel.recommendation = Null
                               THEN prev.recommendation
                               ELSE sel.recommendation ]

\* the four state values computeSignals leaves behind, prev being the stored ones;
\* md and chain are the marketData and optionChain its closure reads
computeSignals(md, chain, prev) ==
  IF InsufficientData(md, chain) THEN prev
  ELSE LET sig == newSignals(md, chain)
           sc == computeStrategyScores(sig, md)
           sel == selectBestStrategy(sc, sig, chain, md)
       IN [ signals |-> sig,
            scores |-> sc,
            selectedStrategy |-> sel.selectedStrategy,
            recommendation |-> sel.recommendation ]

Stored == [ signals |-> signals,
            scores |-> scores,
            selectedStrategy |-> selectedStrategy,
            recommendation |-> recommendation ]

\* a slip in the slice: 30 old samples are kept, not 29
appendSample_keep30(prev, sample) == Append(SliceLast(prev, Capacity), sample)

\* a slip in the slice: nothing is ever dropped
appendSample_noEvict(prev, sample) == Append(prev, sample)

\* setMarketData's updater: [...prev.slice(-29), mockData]
appendSample(prev, sample) == Append(SliceLast(prev, Capacity - 1), sample)

\* the mock sample of fetchMarketData; its instant is the minute code and
\* the rank of the sample among all samples created
MockSample(spot, volume) ==
  [ spot |-> spot,
    timestamp |-> [minute |-> now, seq |-> Len(appended) + 1],
    volume |-> volume ]

---------------------------------------------------------------------------
(* Input sets                                                              *)

\* spot: 25100 + (Math.random() - 0.5) * 100, one representative draw
MockSpots == {25100}
\* volume: Math.floor(Math.random() * 1000000) + 500000, one representative draw
MockVolumes == {1000000}

OptLeg(ltp, bid, ask, oi, iv, delta) ==
  [ltp |-> ltp, bid |-> bid, ask |-> ask, oi |-> oi, iv |-> iv, delta |-> delta]

\* liquid chain, ATM 1000 for spots near 1000, pin at 1000
ChainLiquid ==
  << [strike |-> 980,  call |-> OptLeg(21, 20, 22, 100, 19, 78), put |-> OptLeg(1, 1, 2, 300, 20, -22)],
     [strike |-> 1000, call |-> OptLeg(1, 1, 2, 500, 18, 50),   put |-> OptLeg(1, 1, 2, 500, 18, -50)],
     [strike |-> 1020, call |-> OptLeg(1, 1, 2, 300, 17, 24),   put |-> OptLeg(21, 20, 22, 100, 16, -76)] >>

\* wide ATM quotes, zero ATM call IV, pin away from the ATM strike, no 25-delta rows
ChainWide ==
  << [strike |-> 990,  call |-> OptLeg(12, 10, 14, 900, 19, 60), put |-> OptLeg(2, 1, 4, 900, 20, -40)],
     [strike |-> 1000, call |-> OptLeg(8, 6, 9, 200, 0, 50),     put |-> OptLeg(8, 6, 9, 200, 18, -50)] >>

\* strikes that are no multiple of 100; two calls and two puts inside the 0.75
\* band, two puts inside the 0.25 band (no delta sits on the edge of a band,
\* where the binary rounding of the subtraction decides)
ChainOdd ==
  << [strike |-> 950, call |-> OptLeg(55, 54, 56, 100, 20, 79), put |-> OptLeg(1, 1, 2, 100, 21, -21)],
     [strike |-> 970, call |-> OptLeg(36, 35, 37, 200, 19, 75), put |-> OptLeg(2, 1, 2, 200, 20, -25)],
     [strike |-> 1010, call |-> OptLeg(9, 8, 10, 700, 18, 45),  put |-> OptLeg(15, 14, 16, 600, 18, -55)],
     [strike |-> 1030, call |-> OptLeg(2, 1, 2, 200, 17, 28),   put |-> OptLeg(30, 29, 31, 100, 17, -72)],
     [strike |-> 1050, call |-> OptLeg(1, 1, 2, 100, 17, 18),   put |-> OptLeg(50, 49, 51, 100, 17, -76)] >>

\* the ATM bid and ask quotes of ChainLiquid around different neighbours,
\* prices, open interest and IVs
ChainLiquidAlt ==
  << [strike |-> 990,  call |-> OptLeg(14, 10, 16, 800, 22, 65), put |-> OptLeg(3, 1, 6, 100, 23, -35)],
     [strike |-> 1000, call |-> OptLeg(2, 1, 2, 600, 20, 52),   put |-> OptLeg(2, 1, 2, 600, 21, -48)] >>

\* the ATM bid and ask quotes of ChainWide in a chain that differs from it in
\* every other respect; no row inside the 0.25 band
ChainWideAlt ==
  << [strike |-> 1000, call |-> OptLeg(7, 6, 9, 300, 21, 55),  put |-> OptLeg(7, 6, 9, 400, 22, -45)],
     [strike |-> 1040, call |-> OptLeg(1, 1, 2, 100, 19, 15),  put |-> OptLeg(41, 40, 42, 100, 20, -77)] >>

Chains == {ChainLiquid, ChainLiquidAlt, ChainWide, ChainWideAlt, ChainOdd}

\* what a successful fetch may deliver to the mounted component: a chain, or
\* an empty list (setOptionChain(chainData || []))
FeedChains == {ChainLiquid, ChainWide, <<>>}

\* minute codes at which the component is mounted: before the window, at its
\* first and last minute, and after it
MountTimes == {913, 915, 945, 947}

---------------------------------------------------------------------------
(* The component: mount, the effect, the interval callback, the fetches    *)

InWindow(t) == t >= WindowStart /\ t <= WindowEnd

Init ==
  /\ now \in MountTimes
  /\ sinceTick = 0
  /\ effectPending = TRUE
  /\ interval = FALSE
  /\ cIsActive = FALSE
  /\ cMarketData = <<>>
  /\ cOptionChain = <<>>
  /\ inFlight = 0
  /\ isActive = FALSE
  /\ timeRemaining = [complete |-> FALSE, minutes |-> -1]
  /\ marketData = <<>>
  /\ optionChain = <<>>
  /\ signals = Null
  /\ scores = Null
  /\ recommendation = Null
  /\ selectedStrategy = "NO-TRADE"
  /\ appended = <<>>
  /\ lastOp = [op |-> "mount"]

\* the useEffect body, run after the render that mounted the component or
\* changed isActive (deps [isActive]); the interval callback it installs closes
\* over that render's isActive, marketData and optionChain.  The state updates
\* made here (setIsActive, setMarketData) are batched into the next render.
RunEffect ==
  /\ effectPending
  /\ IF InWindow(now)
     THEN \E spot \in MockSpots, volume \in MockVolumes :
            /\ isActive' = TRUE
            /\ marketData' = appendSample(marketData, MockSample(spot, volume))
            /\ appended' = Append(appended, MockSample(spot, volume))
            /\ inFlight' = inFlight + 1
     ELSE /\ isActive' = FALSE
          /\ UNCHANGED <<marketData, appended, inFlight>>
  /\ effectPending' = (isActive' # isActive)
  /\ interval' = TRUE
  /\ sinceTick' = 0
  /\ cIsActive' = isActive
  /\ cMarketData' = marketData
  /\ cOptionChain' = optionChain
  /\ lastOp' = [op |-> "effect"]
  /\ UNCHANGED <<now, timeRemaining, optionChain, outVars>>

\* updateTimeRemaining
TimeRemainingAt(t) ==
  IF t >= WindowEnd THEN [complete |-> TRUE, minutes |-> 0]
  ELSE [complete |-> FALSE, minutes |-> WindowEnd - t - 1]

\* the setInterval callback, 60 s after it was armed or last fired
Tick ==
  /\ interval
  /\ sinceTick = 1
  /\ sinceTick' = 0
  /\ timeRemaining' = TimeRemainingAt(now)
  /\ IF cIsActive
     THEN \E spot \in MockSpots, volume \in MockVolumes :
            LET out == computeSignals(cMarketData, cOptionChain, Stored)
            IN /\ marketData' = appendSample(marketData, MockSample(spot, volume))
               /\ appended' = Append(appended, MockSample(spot, volume))
               /\ signals' = out.signals
               /\ scores' = out.scores
               /\ selectedStrategy' = out.selectedStrategy
               /\ recommendation' = out.recommendation
               /\ lastOp' = [op |-> "tick", active |-> TRUE,
                             insufficient |-> InsufficientData(cMarketData, cOptionChain)]
     ELSE /\ UNCHANGED <<marketData, appended, outVars>>
          /\ lastOp' = [op |-> "tick", active |-> FALSE, insufficient |-> FALSE]
  /\ UNCHANGED <<now, effectPending, interval, cIsActive, cMarketData,
                 cOptionChain, inFlight, isActive, optionChain>>

\* the wall clock passes a minute boundary
MinuteBoundary ==
  /\ now < MaxNow
  /\ sinceTick = 0
  /\ now' = now + 1
  /\ sinceTick' = IF interval THEN 1 ELSE 0
  /\ lastOp' = [op |-> "minute"]
  /\ UNCHANGED <<effectPending, interval, cIsActive, cMarketData, cOptionChain,
                 inFlight, isActive, timeRemaining, marketData, optionChain,
                 outVars, appended>>

\* a slip in the setter: rows of the stored chain whose strike was not
\* fetched again are kept in front of the fetched rows
setOptionChain_patch(prev, chainData) ==
  SelectSeq(prev, LAMBDA row : \A i \in 1..Len(chainData) :
                                  chainData[i].strike # row.strike)
    \o chainData

\* the chain stored by setOptionChain(chainData || []), prev being the stored one
setOptionChain(prev, chainData) == chainData

\* fetchOptionChain resumes with response.ok
FetchOk ==
  /\ inFlight > 0
  /\ inFlight' = inFlight - 1
  /\ \E chainData \in FeedChains :
       /\ optionChain' = setOptionChain(optionChain, chainData)
       /\ lastOp' = [op |-> "fetchOk", fetched |-> chainData]
  /\ UNCHANGED <<now, sinceTick, effectPending, interval, cIsActive, cMarketData,
                 cOptionChain, isActive, timeRemaining, marketData, outVars, appended>>

\* fetchOptionChain resumes with a non-OK response or a thrown error
FetchFail ==
  /\ inFlight > 0
  /\ inFlight' = inFlight - 1
  /\ lastOp' = [op |-> "fetchFail"]
  /\ UNCHANGED <<now, sinceTick, effectPending, interval, cIsActive, cMarketData,
                 cOptionChain, isActive, timeRemaining, marketData, optionChain,
                 outVars, appended>>

Next == RunEffect \/ Tick \/ MinuteBoundary \/ FetchOk \/ FetchFail

Spec == Init /\ [][Next]_vars

\* the timer loop keeps firing, React runs scheduled effects, responses arrive
FairSpec ==
  /\ Spec
  /\ WF_vars(RunEffect)
  /\ WF_vars(Tick)
  /\ WF_vars(MinuteBoundary)
  /\ WF_vars(FetchOk \/ FetchFail)

---------------------------------------------------------------------------
(* Direct invocation of the handlers: computeSignals reads the current     *)
(* marketData and optionChain (a callback created by the latest render)    *)

FnSpots == {1000, 1002, 1010}
FnVolumes == {100, 300}

InitFn ==
  /\ now = WindowStart
  /\ sinceTick = 0
  /\ effectPending = FALSE
  /\ interval = FALSE
  /\ cIsActive = FALSE
  /\ cMarketData = <<>>
  /\ cOptionChain = <<>>
  /\ inFlight = 0
  /\ isActive = FALSE
  /\ timeRemaining = [complete |-> FALSE, minutes |-> -1]
  /\ marketData = <<>>
  /\ optionChain = <<>>
  /\ signals = Null
  /\ scores = Null
  /\ recommendation = Null
  /\ selectedStrategy = "NO-TRADE"
  /\ appended = <<>>
  /\ lastOp = [op |-> "mount"]

\* fetchMarketData with the sample as input
FnFetchMarketData ==
  /\ Len(marketData) < MaxLen
  /\ \E spot \in FnSpots, volume \in FnVolumes :
       /\ marketData' = appendSample(marketData, MockSample(spot, volume))
       /\ appended' = Append(appended, MockSample(spot, volume))
  /\ lastOp' = [op |-> "append"]
  /\ UNCHANGED <<timerVars, optionChain, outVars>>

\* the setOptionChain(chainData || []) of a successful fetchOptionChain
FnSetOptionChain ==
  /\ \E chain \in Chains \cup {<<>>} : optionChain' = chain
  /\ lastOp' = [op |-> "chain"]
  /\ UNCHANGED <<timerVars, marketData, appended, outVars>>

\* computeSignals, and through it computeStrategyScores, selectBestStrategy
\* and constructTrade
FnComputeSignals ==
  LET out == computeSignals(marketData, optionChain, Stored)
  IN /\ signals' = out.signals
     /\ scores' = out.scores
     /\ selectedStrategy' = out.selectedStrategy
     /\ recommendation' = out.recommendation
     /\ lastOp' = [op |-> "compute",
                   insufficient |-> InsufficientData(marketData, optionChain),
                   hadTrade |-> recommendation # Null]
     /\ UNCHANGED <<timerVars, marketData, optionChain, appended>>

NextFn == FnFetchMarketData \/ FnSetOptionChain \/ FnComputeSignals

SpecCompute == InitFn /\ [][NextFn]_vars

---------------------------------------------------------------------------
(* Direct invocation on a buffer about to evict its head                   *)

\* the 29 samples of a session that opened at its high
BufSession ==
  [i \in 1..(Capacity - 1) |->
     [spot |-> IF i = 1 THEN 1010 ELSE IF i % 2 = 0 THEN 1002 ELSE 1000,
      timestamp |-> [minute |-> WindowStart + i - 1, seq |-> i],
      volume |-> 300]]

LateSpots == {1000, 1002, 1004}

InitLate ==
  /\ now = WindowStart + Capacity - 1
  /\ sinceTick = 0
  /\ effectPending = FALSE
  /\ interval = FALSE
  /\ cIsActive = FALSE
  /\ cMarketData = <<>>
  /\ cOptionChain = <<>>
  /\ inFlight = 0
  /\ isActive = FALSE
  /\ timeRemaining = [complete |-> FALSE, minutes |-> -1]
  /\ marketData = BufSession
  /\ optionChain \in {ChainLiquid, ChainOdd}
  /\ signals = Null
  /\ scores = Null
  /\ recommendation = Null
  /\ selectedStrategy = "NO-TRADE"
  /\ appended = BufSession
  /\ lastOp = [op |-> "mount"]

\* fetchMarketData on the long buffer, the sample as input
FnFetchLate ==
  /\ Len(appended) < Capacity - 1 + MaxLate
  /\ \E spot \in LateSpots :
       /\ marketData' = appendSample(marketData, MockSample(spot, 300))
       /\ appended' = Append(appended, MockSample(spot, 300))
  /\ lastOp' = [op |-> "append"]
  /\ UNCHANGED <<timerVars, optionChain, outVars>>

NextLate == FnFetchLate \/ FnComputeSignals

SpecLate == InitLate /\ [][NextLate]_vars

---------------------------------------------------------------------------
(* Direct invocation of computeStrategyScores on a Signals record          *)

FlatSample(volume, k) ==
  [spot |-> 1000, timestamp |-> [minute |-> WindowStart, seq |-> k], volume |-> volume]

\* six samples, the last five at three times the volume of the first
BufSurge == << FlatSample(100, 1), FlatSample(300, 2), FlatSample(300, 3),
               FlatSample(300, 4), FlatSample(300, 5), FlatSample(300, 6) >>

\* six samples of equal volume
BufFlat == << FlatSample(300, 1), FlatSample(300, 2), FlatSample(300, 3),
              FlatSample(300, 4), FlatSample(300, 5), FlatSample(300, 6) >>

\* three samples: no sample precedes the last five
BufShort == << FlatSample(300, 1), FlatSample(300, 2), FlatSample(300, 3) >>

\* (buffer, chain) pairs the scorer's closure holds
ScoreInputs == { <<BufSurge, ChainLiquid>>, <<BufSurge, ChainOdd>>,
                 <<BufSurge, ChainWide>>, <<BufFlat, ChainLiquid>>,
                 <<BufFlat, ChainOdd>>, <<BufShort, ChainLiquid>> }

\* (OR_width_pct, EM_pct): EM below 1.1 x ORw, between, above 1.3 x ORw, wide
\* range, both zero
RangeMoves == { [orw |-> Q(20, 100), em |-> Q(20, 100)],
                [orw |-> Q(20, 100), em |-> Q(25, 100)],
                [orw |-> Q(20, 100), em |-> Q(150, 100)],
                [orw |-> Q(100, 100), em |-> Q(20, 100)],
                [orw |-> Q(0, 100), em |-> Q(0, 100)] }

\* (rv_30m_volpts, pin_dist_pct)
VolPins == { [rv |-> Q(5, 1), pin |-> Q(30, 100)],
             [rv |-> Q(13, 1), pin |-> Q(35, 100)],
             [rv |-> Q(16, 1), pin |-> Q(40, 100)] }

\* (ORH, ORL, current_spot): inside the range, above ORH x 1.0015, below ORL x 0.9985
RangeSpots == { [h |-> 1010, l |-> 990, s |-> 1000],
                [h |-> 1000, l |-> 990, s |-> 1002],
                [h |-> 1010, l |-> 1000, s |-> 998] }

SignalsSet ==
  { [ OR_width_pct  |-> p.orw,
      EM_pct        |-> p.em,
      FB_ratio      |-> fb,
      RR25          |-> rr,
      rv_30m_volpts |-> v.rv,
      pin_strike    |-> 1000,
      pin_dist_pct  |-> v.pin,
      liquidity_ok  |-> liq,
      ORH           |-> b.h,
      ORL           |-> b.l,
      spot_open     |-> 1000,
      current_spot  |-> b.s ] :
    p \in RangeMoves,
    fb \in {NaN, Q(110, 100), Q(100, 85), Q(120, 100)},
    rr \in {Q(-2, 1), Q(-1, 1), Q(0, 1), Q(1, 1), Q(2, 1)},
    v \in VolPins,
    liq \in BOOLEAN,
    b \in RangeSpots }

InitScore ==
  /\ now = WindowStart
  /\ sinceTick = 0
  /\ effectPending = FALSE
  /\ interval = FALSE
  /\ cIsActive = FALSE
  /\ cMarketData = <<>>
  /\ cOptionChain = <<>>
  /\ inFlight = 0
  /\ isActive = FALSE
  /\ timeRemaining = [complete |-> FALSE, minutes |-> -1]
  /\ \E io \in ScoreInputs : marketData = io[1] /\ optionChain = io[2]
  /\ signals = Null
  /\ scores = Null
  /\ recommendation = Null
  /\ selectedStrategy = "NO-TRADE"
  /\ appended = marketData
  /\ lastOp = [op |-> "mount"]

\* setSignals(newSignals); computeStrategyScores(newSignals), the record given;
\* applied once to each input
FnScore ==
  /\ lastOp.op = "mount"
  /\ \E sig \in SignalsSet :
       LET sc == computeStrategyScores(sig, marketData)
           sel == selectBestStrategy(sc, sig, optionChain, marketData)
       IN /\ signals' = sig
          /\ scores' = sc
          /\ selectedStrategy' = sel.selectedStrategy
          /\ recommendation' = sel.recommendation
          /\ lastOp' = [op |-> "score"]
          /\ UNCHANGED <<timerVars, marketData, optionChain, appended>>

NextScore == FnScore

SpecScore == InitScore /\ [][NextScore]_vars

---------------------------------------------------------------------------
(* Properties                                                              *)

B2N(b) == IF b THEN 1 ELSE 0

Archetypes == <<"A", "B", "C", "D">>

\* a Signals record has been scored and a decision stored
Scored == lastOp.op = "score"

\* the largest of the four stored scores
TopScore == CHOOSE m \in {scores.A, scores.B, scores.C, scores.D} :
              \A x \in {scores.A, scores.B, scores.C, scores.D} : m >= x

StrategyName(letter) ==
  CASE letter = "A" -> "Expiry Iron Fly"
    [] letter = "B" -> "ORB + ITM Long"
    [] letter = "C" -> "ATM Double-Calendar"
    [] letter = "D" -> "Delta-Hedged Short Straddle"

\* C3: the stored decision is NO-TRADE with an empty recommendation exactly
\* when the largest score is below 2 or liquidity_ok is false; in every other
\* case it is a recommendation for an archetype whose score is the largest.
C3_NoTradeExactly ==
  Scored =>
    LET blocked == TopScore < 2 \/ ~signals.liquidity_ok
    IN /\ (selectedStrategy = "NO-TRADE") <=> blocked
       /\ (recommendation = Null) <=> blocked
       /\ ~blocked =>
            /\ selectedStrategy \in {"A", "B", "C", "D"}
            /\ scores[selectedStrategy] = TopScore
            /\ recommendation.strategy = StrategyName(selectedStrategy)

\* an illiquid record whose best score clears the bar still gives NO-TRADE
C3_Witness ==
  /\ Scored
  /\ ~signals.liquidity_ok
  /\ TopScore >= 3
  /\ selectedStrategy = "NO-TRADE"
  /\ recommendation = Null

\* C4: the selected archetype is the earliest of Iron Fly, ORB, Calendar,
\* Straddle that reaches the largest score: every archetype before it scores
\* strictly less, none scores more.
C4_TieBreak ==
  (Scored /\ selectedStrategy # "NO-TRADE") =>
    \E k \in 1..4 :
      /\ selectedStrategy = Archetypes[k]
      /\ \A j \in 1..(k - 1) : scores[Archetypes[j]] < scores[Archetypes[k]]
      /\ \A j \in (k + 1)..4 : scores[Archetypes[j]] <= scores[Archetypes[k]]

\* Iron Fly and ORB tie at the top and the Iron Fly is selected
C4_Witness ==
  /\ Scored
  /\ selectedStrategy = "A"
  /\ scores.A = scores.B
  /\ scores.A >= 2

\* C7: the Iron Fly, calendar and straddle scores are the sums of their rule
\* tables, each rule counted on its own.
C7_RuleTables ==
  Scored =>
    LET fb == signals.FB_ratio
        em == signals.EM_pct
        orw == signals.OR_width_pct
        rv == signals.rv_30m_volpts
        pin == signals.pin_dist_pct
        skewed == QGe(QAbs(signals.RR25), Q(2, 1))
        emSmall == QLe(em, QMul(Q(11, 10), orw))
    IN /\ scores.A = B2N(QGe(fb, Q(115, 100))) + B2N(emSmall)
                     + B2N(QLe(pin, Q(35, 100)) \/ QLt(rv, QMul(fb, Q(10, 1))))
                     - B2N(skewed)
       /\ scores.C = 2 * B2N(QGe(fb, Q(120, 100)))
                     + B2N(QLe(pin, Q(30, 100)) \/ QLt(rv, Q(15, 1)))
                     - B2N(QGe(orw, Q(9, 10)))
       /\ scores.D = 2 * B2N(QGe(QSub(QMul(fb, Q(15, 1)), rv), Q(3, 1)))
                     + B2N(emSmall) - B2N(skewed)

\* all three tables at their maximum
C7_Witness ==
  /\ Scored
  /\ scores.A = 3
  /\ scores.C = 3
  /\ scores.D = 3

\* C8: the ORB score is [breakout] + [aligned skew] + [FB <= 1.10]
\* + [EM >= 1.3 x ORw]; the alignment point needs a breakout, and an up
\* breakout with RR25 > 0 has it.
C8_OrbScore ==
  Scored =>
    LET breakout == checkBreakout(signals, marketData)
        up == breakout.hasBreakout /\ breakout.direction = "up"
        down == breakout.hasBreakout /\ breakout.direction = "down"
        aligned == (up /\ QGt(signals.RR25, Q(0, 1)))
                   \/ (down /\ QLt(signals.RR25, Q(0, 1)))
        rest == B2N(QLe(signals.FB_ratio, Q(110, 100)))
                + B2N(QGe(signals.EM_pct, QMul(Q(13, 10), signals.OR_width_pct)))
    IN /\ scores.B = B2N(breakout.hasBreakout) + B2N(aligned) + rest
       /\ ~breakout.hasBreakout => scores.B = rest
       /\ (up /\ QGt(signals.RR25, Q(0, 1))) => scores.B = 2 + rest

\* an up breakout with positive skew collects all four points
C8_Witness ==
  /\ Scored
  /\ checkBreakout(signals, marketData).direction = "up"
  /\ QGt(signals.RR25, Q(0, 1))
  /\ scores.B = 4

\* the ATM strike constructTrade works from
TradeATM == findATMStrike(optionChain, signals.current_spot)

\* C9 as stated: the Iron Fly wings are struck at exactly ATM x 1.01 and
\* ATM x 0.99.
C9_ExactWings ==
  (Scored /\ selectedStrategy = "A") =>
    /\ Len(recommendation.legs) = 4
    /\ recommendation.legs[1] = Leg("SELL", "CALL", TradeATM, "today")
    /\ recommendation.legs[2] = Leg("SELL", "PUT", TradeATM, "today")
    /\ recommendation.legs[3].strike * 100 = TradeATM * 101
    /\ recommendation.legs[4].strike * 100 = TradeATM * 99
    /\ recommendation.risk.max_loss_R = Q(1, 2)

\* k is x * pct / 100 rounded to the nearest integer, halves up
Nearest(k, x, pct) == x * pct - 50 < 100 * k /\ 100 * k <= x * pct + 50

\* C9: the Iron Fly recommendation has four legs, all today: sell call and
\* sell put at the ATM strike, buy call at ATM x 1.01 and buy put at
\* ATM x 0.99, both rounded to the nearest integer; risk fraction 0.5.
C9_RoundedWings ==
  (Scored /\ selectedStrategy = "A") =>
    /\ Len(recommendation.legs) = 4
    /\ recommendation.legs[1] = Leg("SELL", "CALL", TradeATM, "today")
    /\ recommendation.legs[2] = Leg("SELL", "PUT", TradeATM, "today")
    /\ recommendation.legs[3].type = "BUY" /\ recommendation.legs[3].opt = "CALL"
    /\ recommendation.legs[3].dte = "today"
    /\ Nearest(recommendation.legs[3].strike, TradeATM, 101)
    /\ recommendation.legs[4].type = "BUY" /\ recommendation.legs[4].opt = "PUT"
    /\ recommendation.legs[4].dte = "today"
    /\ Nearest(recommendation.legs[4].strike, TradeATM, 99)
    /\ recommendation.risk.max_loss_R = Q(1, 2)

\* an Iron Fly on an ATM strike whose 1% is no whole number
C9_Witness ==
  /\ Scored
  /\ selectedStrategy = "A"
  /\ (TradeATM * 101) % 100 # 0
  /\ recommendation.legs[3].strike > TradeATM
  /\ recommendation.legs[4].strike < TradeATM

\* rows of the stored chain inside the 0.05 band around a delta of 0.75
Near75(type) ==
  { i \in 1..Len(optionChain) : AbsI(LegDelta(optionChain[i], type) - 75) < 5 }

C11_CalendarLegs ==
  (Scored /\ selectedStrategy = "C") =>
    /\ recommendation.strategy = "ATM Double-Calendar"
    /\ Len(recommendation.legs) = 4
    /\ recommendation.legs[1] = Leg("BUY", "CALL", TradeATM, "next_week")
    /\ recommendation.legs[2] = Leg("BUY", "PUT", TradeATM, "next_week")
    /\ recommendation.legs[3] = Leg("SELL", "CALL", TradeATM, "today")
    /\ recommendation.legs[4] = Leg("SELL", "PUT", TradeATM, "today")
    /\ recommendation.risk.max_loss_R = Q(1, 2)
    /\ signals.liquidity_ok

\* the calendar is selected ahead of a lower Iron Fly score
C11_Witness ==
  /\ Scored
  /\ selectedStrategy = "C"
  /\ scores.C > scores.A
  /\ Len(recommendation.legs) = 4

\* C12: a selected short straddle has exactly two legs, both at the ATM strike
\* for today, in this order: sell call, sell put; its risk fraction is 1.0.
C12_StraddleLegs ==
  (Scored /\ selectedStrategy = "D") =>
    /\ recommendation.strategy = "Delta-Hedged Short Straddle"
    /\ Len(recommendation.legs) = 2
    /\ recommendation.legs[1] = Leg("SELL", "CALL", TradeATM, "today")
    /\ recommendation.legs[2] = Leg("SELL", "PUT", TradeATM, "today")
    /\ recommendation.risk.max_loss_R = Q(1, 1)

\* the straddle is selected ahead of the three archetypes tested before it
C12_Witness ==
  /\ Scored
  /\ selectedStrategy = "D"
  /\ scores.D > scores.A /\ scores.D > scores.B /\ scores.D > scores.C
  /\ Len(recommendation.legs) = 2

\* C13: from a record with an Iron Fly score of 3 and liquidity_ok true, no
\* other archetype scores more than the Iron Fly and the Iron Fly
\* recommendation is the one stored.
C13_IronFlyAtThree ==
  (Scored /\ scores.A = 3 /\ signals.liquidity_ok) =>
    /\ scores.B <= scores.A /\ scores.C <= scores.A /\ scores.D <= scores.A
    /\ selectedStrategy = "A"
    /\ recommendation # Null
    /\ recommendation.strategy = "Expiry Iron Fly"
    /\ recommendation.legs = IronFlyLegs(TradeATM)

\* the Iron Fly is stored although ORB and the straddle reach 3 as well
C13_Witness ==
  /\ Scored
  /\ scores.A = 3 /\ scores.B = 3 /\ scores.D = 3
  /\ signals.liquidity_ok
  /\ selectedStrategy = "A"

\* the mean volume of the most recent five samples is at least twice the mean
\* volume of the samples before them; without earlier samples there is no
\* mean to exceed and no surge
SurgeOverPrior(md) ==
  LET prior == Volumes(SliceButLast(md, 5))
      recent == Volumes(SliceLast(md, 5))
  IN /\ Len(prior) > 0
     /\ SeqSum(recent) * Len(prior) >= 2 * SeqSum(prior) * Len(recent)

---------------------------------------------------------------------------
(* Properties of the sample buffer and of computeSignals' guard            *)

\* C6: the buffer holds at most 30 samples: the most recent min(n, 30) of the
\* n samples appended so far, in the order they were appended.
C6_LastThirty ==
  LET n == Len(appended)
      k == IF n < 30 THEN n ELSE 30
  IN /\ Len(marketData) = k
     /\ \A i \in 1..k : marketData[i] = appended[n - k + i]

\* more samples were appended than the buffer keeps
C6_Witness == Len(appended) >= 32 /\ Len(marketData) = 30

\* C5: computeSignals invoked with fewer than 2 samples or an empty chain
\* leaves signals, scores, selected strategy and recommendation as they were.
C5_SkipLeavesState ==
  [][ (lastOp'.op = "compute" /\ (Len(marketData) < 2 \/ Len(optionChain) = 0))
        => UNCHANGED outVars ]_vars

\* computeSignals ran on an emptied chain and the earlier decision is still stored
C5_Witness ==
  /\ lastOp.op = "compute"
  /\ lastOp.insufficient
  /\ Len(optionChain) = 0
  /\ Len(marketData) >= 2
  /\ signals # Null
  /\ recommendation # Null

---------------------------------------------------------------------------
(* Properties of the Signals record computeSignals stores                  *)

\* computeSignals has just stored a record built from marketData and optionChain
Computed == lastOp.op = "compute" /\ ~lastOp.insufficient

\* rows of the stored chain inside the 0.05 band around a delta of 0.25
Near25(type) ==
  { i \in 1..Len(optionChain) : AbsI(LegDelta(optionChain[i], type) - 25) < 5 }

\* the IVs the claim allows for one leg: the IV of a row of the band closest
\* to 0.25, or 0 when the band is empty
ClosestIV25(type) ==
  IF Near25(type) = {} THEN {0}
  ELSE { (IF type = "call" THEN optionChain[i].call.iv ELSE optionChain[i].put.iv) :
           i \in { k \in Near25(type) :
                     \A j \in Near25(type) :
                       AbsI(LegDelta(optionChain[k], type) - 25)
                         <= AbsI(LegDelta(optionChain[j], type) - 25) } }

\* C14 as stated: RR25 is the IV of the call row closest to a delta of 0.25
\* inside the 0.05 band minus the IV of the put row closest to 0.25 inside the
\* band, a leg without a row in the band counting 0.
C14_ClosestRiskReversal ==
  Computed =>
    \E c \in ClosestIV25("call"), p \in ClosestIV25("put") :
      signals.RR25 = Q(c - p, 1)

\* index of the first row of the chain at the least distance from the spot
FirstNearestRow(chain, spot) ==
  CHOOSE i \in 1..Len(chain) :
    /\ \A j \in 1..Len(chain) :
         AbsI(chain[i].strike - spot) <= AbsI(chain[j].strike - spot)
    /\ \A j \in 1..(i - 1) :
         AbsI(chain[i].strike - spot) < AbsI(chain[j].strike - spot)

\* C15: the ATM strike is the strike of the first row of the snapshot at the
\* least distance from the current spot, for every snapshot and spot of the
\* model and for the record computeSignals stores (whose expected move is
\* read from that row).
C15_AtmFirstNearest ==
  /\ \A chain \in Chains, spot \in FnSpots :
       findATMStrike(chain, spot) = chain[FirstNearestRow(chain, spot)].strike
  /\ Computed =>
       LET row == optionChain[FirstNearestRow(optionChain, signals.current_spot)]
       IN signals.EM_pct = Q((row.call.ltp + row.put.ltp) * 100, signals.current_spot)

\* two rows are equally near the spot and the record is built from the earlier
C15_Witness ==
  /\ Computed
  /\ \E i, j \in 1..Len(optionChain) :
       /\ i < j
       /\ i = FirstNearestRow(optionChain, signals.current_spot)
       /\ AbsI(optionChain[i].strike - signals.current_spot)
            = AbsI(optionChain[j].strike - signals.current_spot)
       /\ optionChain[i].call.ltp + optionChain[i].put.ltp
            # optionChain[j].call.ltp + optionChain[j].put.ltp

\* C17: pin_strike is a strike of the chain the record was computed from, and
\* no row of that chain has more combined open interest than its row.
C17_PinIsMaxOI ==
  Computed =>
    \E i \in 1..Len(optionChain) :
      /\ optionChain[i].strike = signals.pin_strike
      /\ \A j \in 1..Len(optionChain) :
           optionChain[j].call.oi + optionChain[j].put.oi
             <= optionChain[i].call.oi + optionChain[i].put.oi

\* the pin is a later row than the one the search starts from, and another
\* row has more call open interest than it
C17_Witness ==
  /\ Computed
  /\ signals.pin_strike # optionChain[1].strike
  /\ \E j \in 1..Len(optionChain) :
       /\ optionChain[j].strike # signals.pin_strike
       /\ optionChain[j].call.oi > optionChain[FindRow(optionChain, signals.pin_strike)].call.oi

\* C18: ORH is the largest and ORL the smallest spot of the buffer the record
\* was computed from, so ORH >= ORL.
C18_OpeningRange ==
  Computed =>
    /\ signals.ORH >= signals.ORL
    /\ \E i \in 1..Len(marketData) : marketData[i].spot = signals.ORH
    /\ \E i \in 1..Len(marketData) : marketData[i].spot = signals.ORL
    /\ \A i \in 1..Len(marketData) :
         signals.ORL <= marketData[i].spot /\ marketData[i].spot <= signals.ORH

\* a buffer whose spots differ, the current one being neither bound
C18_Witness ==
  /\ Computed
  /\ signals.ORH > signals.ORL
  /\ signals.current_spot # signals.ORH
  /\ signals.current_spot # signals.ORL

\* the bid and ask quotes of the ATM row of a chain
AtmQuotes(chain, spot) ==
  LET row == chain[FirstNearestRow(chain, spot)]
  IN << row.call.bid, row.call.ask, row.put.bid, row.put.ask >>

\* C19: liquidity_ok is true exactly when the mean of the ATM call spread and
\* the ATM put spread is at most 2; a chain with the same ATM bid and ask
\* quotes gives the same liquidity_ok whatever else it holds.
C19_LiquidityFromAtmQuotes ==
  Computed =>
    LET quotes == AtmQuotes(optionChain, signals.current_spot)
    IN /\ signals.liquidity_ok
            <=> (quotes[2] - quotes[1]) + (quotes[4] - quotes[3]) <= 2 * 2
       /\ \A chain \in Chains :
            AtmQuotes(chain, signals.current_spot) = quotes
              => newSignals(marketData, chain).liquidity_ok = signals.liquidity_ok

\* an illiquid record (the call spread alone is inside the threshold, the
\* mean of both is not) from a chain that shares its ATM quotes with another
C19_Witness ==
  /\ Computed
  /\ ~signals.liquidity_ok
  /\ LET quotes == AtmQuotes(optionChain, signals.current_spot)
     IN quotes[2] - quotes[1] <= 2 * 2
  /\ \E chain \in Chains :
       /\ chain # optionChain
       /\ AtmQuotes(chain, signals.current_spot) = AtmQuotes(optionChain, signals.current_spot)

\* the stored values of a component that has not computed anything yet
FreshStored == [ signals |-> Null,
                 scores |-> Null,
                 selectedStrategy |-> "NO-TRADE",
                 recommendation |-> Null ]

C26_ConstantTermStructure ==
  /\ selectedStrategy # "C"
  /\ Computed =>
       LET row == optionChain[FirstNearestRow(optionChain, signals.current_spot)]
       IN /\ row.call.iv # 0 => signals.FB_ratio = Q(100, 85)
          /\ ~QGe(signals.FB_ratio, Q(120, 100))
          /\ ~QLe(signals.FB_ratio, Q(110, 100))
          /\ scores.C <= 1

\* the calendar collects its pin point and nothing else while another
\* archetype is selected
C26_Witness ==
  /\ Computed
  /\ optionChain[FirstNearestRow(optionChain, signals.current_spot)].call.iv # 0
  /\ scores.C = 1
  /\ selectedStrategy \in {"A", "D"}

\* C27: in every computed record ORL <= current_spot <= ORH; checkBreakout
\* reports no breakout for the record and the buffer it was computed from;
\* the ORB score is at most 2 and ORB is never the selection.
C27_NoBreakoutInRange ==
  /\ selectedStrategy # "B"
  /\ Computed =>
       /\ signals.ORL <= signals.current_spot
       /\ signals.current_spot <= signals.ORH
       /\ ~(signals.current_spot * 10000 > signals.ORH * 10015)
       /\ ~(signals.current_spot * 10000 < signals.ORL * 9985)
       /\ ~checkBreakout(signals, marketData).hasBreakout
       /\ scores.B <= 2

\* the current spot is the high of a range of positive width and ORB has its
\* expected-move point
C27_Witness ==
  /\ Computed
  /\ signals.current_spot = signals.ORH
  /\ signals.ORH > signals.ORL
  /\ scores.B = 1

\* type, option and expiry of the legs of a recommendation
LegKinds(rec) ==
  [i \in 1..Len(rec.legs) |-> << rec.legs[i].type, rec.legs[i].opt, rec.legs[i].dte >>]

\* the leg kinds each archetype is built with
ArchetypeLegKinds(letter) ==
  CASE letter = "A" -> { << <<"SELL", "CALL", "today">>, <<"SELL", "PUT", "today">>,
                            <<"BUY", "CALL", "today">>, <<"BUY", "PUT", "today">> >> }
    [] letter = "B" -> { << <<"BUY", "CALL", "today">> >>, << <<"BUY", "PUT", "today">> >> }
    [] letter = "C" -> { << <<"BUY", "CALL", "next_week">>, <<"BUY", "PUT", "next_week">>,
                            <<"SELL", "CALL", "today">>, <<"SELL", "PUT", "today">> >> }
    [] letter = "D" -> { << <<"SELL", "CALL", "today">>, <<"SELL", "PUT", "today">> >> }

\* C28: the stored decision is self-consistent in every state: a
\* recommendation is stored only with one of the four archetypes selected,
\* and carries its name and its legs; with NO-TRADE selected none is stored;
\* and one is stored only if the stored Signals have liquidity_ok and the
\* largest stored score is at least 2.
C28_DecisionConsistent ==
  /\ recommendation # Null =>
       /\ selectedStrategy \in {"A", "B", "C", "D"}
       /\ recommendation.strategy = StrategyName(selectedStrategy)
       /\ LegKinds(recommendation) \in ArchetypeLegKinds(selectedStrategy)
       /\ signals # Null /\ scores # Null
       /\ signals.liquidity_ok
       /\ TopScore >= 2
  /\ selectedStrategy = "NO-TRADE" => recommendation = Null
  /\ selectedStrategy \in {"A", "B", "C", "D", "NO-TRADE"}

\* a stored straddle outlives an append and a change of chain
C28_Witness ==
  /\ recommendation # Null
  /\ selectedStrategy = "D"
  /\ lastOp.op = "chain"
  /\ optionChain = ChainWide
  /\ Len(marketData) = 3

Retained ==
  LET n == Len(appended)
      first == IF n <= Capacity THEN 1 ELSE n - Capacity + 1
  IN [i \in 1..(n - first + 1) |-> appended[first + i - 1]]

\* C30: in every computed record spot_open is the spot of the oldest sample
\* retained and current_spot that of the newest; spot_open, ORH and ORL are
\* those of the session's first sample onwards while at most 30 samples have
\* been appended, and of the last 30 samples once the head has been evicted.
C30_OpenIsOldestRetained ==
  Computed =>
    /\ signals.spot_open = marketData[1].spot
    /\ signals.current_spot = marketData[Len(marketData)].spot
    /\ signals.spot_open = Retained[1].spot
    /\ signals.current_spot = appended[Len(appended)].spot
    /\ \E i \in 1..Len(Retained) : Retained[i].spot = signals.ORH
    /\ \E i \in 1..Len(Retained) : Retained[i].spot = signals.ORL
    /\ \A i \in 1..Len(Retained) :
         signals.ORL <= Retained[i].spot /\ Retained[i].spot <= signals.ORH
    /\ signals.OR_width_pct
         = Q((signals.ORH - signals.ORL) * 100, Retained[1].spot)
    /\ Len(appended) <= Capacity => signals.spot_open = appended[1].spot

\* the session's first sample, its high, has been evicted: the open and the
\* high of the record are no longer its spot
C30_Witness ==
  /\ Computed
  /\ Len(appended) > Capacity
  /\ signals.spot_open # appended[1].spot
  /\ signals.ORH < appended[1].spot

---------------------------------------------------------------------------
(* Properties of the timer loop                                            *)

\* C1 as stated: an interval tick that fires while the clock is outside
\* 09:15-09:45 appends no sample and computes nothing.
C1_NoWorkOutsideWindow ==
  [][ (sinceTick = 1 /\ lastOp'.op = "tick" /\ ~InWindow(now))
        => (marketData' = marketData /\ appended' = appended /\ UNCHANGED outVars) ]_vars

\* C2 as stated: while the engine is active, a tick that fires once the
\* buffer holds at least 2 samples and the chain is non-empty computes the
\* signals, scores them and publishes a decision.
C2_TickPublishes ==
  [][ (sinceTick = 1 /\ lastOp'.op = "tick"
       /\ isActive /\ Len(marketData) >= 2 /\ Len(optionChain) > 0)
        => (signals' # Null /\ scores' # Null) ]_vars

\* C20 as stated: the engine is active whenever the clock is inside
\* 09:15-09:45, also when it was mounted before 09:15: every tick that fires
\* inside the window, the effect having run to the end, finds the engine
\* active and appends one sample.
C20_ActiveOnceWindowOpens ==
  [][ (sinceTick = 1 /\ lastOp'.op = "tick" /\ InWindow(now) /\ ~effectPending)
        => (isActive /\ lastOp'.active /\ Len(appended') = Len(appended) + 1) ]_vars

\* C21 as stated: the buffer is discarded at session end: once the clock is
\* past 09:45 and the timer has fired (the effect having run to the end),
\* the buffer is empty.
C21_DiscardedAtSessionEnd ==
  (now > WindowEnd /\ lastOp.op = "tick" /\ ~effectPending) => marketData = <<>>

\* C23 as stated: the computation of an active tick reads the buffer and the
\* chain as they stand at that tick: what it leaves in signals, scores,
\* selected strategy and recommendation is what computeSignals gives on the
\* stored marketData and optionChain.
C23_TickReadsLatest ==
  [][ (sinceTick = 1 /\ lastOp'.op = "tick" /\ lastOp'.active /\ ~effectPending)
        => Stored' = computeSignals(marketData, optionChain, Stored) ]_vars

\* C24 as stated: one sample per cadence interval: no two of the samples
\* appended carry the same minute.
C24_OneSamplePerMinute ==
  \A i, j \in 1..Len(appended) :
    i # j => appended[i].timestamp.minute # appended[j].timestamp.minute

\* C25: a successful chain fetch stores exactly the fetched rows; a failed
\* one leaves chain, buffer, signals, scores, selection and recommendation
\* as they were and the timer armed as it was.
C25_FetchReplacesOrKeeps ==
  [][ /\ lastOp'.op = "fetchOk" => optionChain' = lastOp'.fetched
      /\ lastOp'.op = "fetchFail" =>
           /\ UNCHANGED <<optionChain, marketData, appended, outVars>>
           /\ UNCHANGED <<interval, sinceTick, cIsActive, isActive>> ]_vars

\* a fetched two-row chain has replaced a three-row one
C25_Witness ==
  /\ lastOp.op = "fetchOk"
  /\ lastOp.fetched = ChainWide
  /\ optionChain = ChainWide
  /\ inFlight = 0
  /\ Len(marketData) >= 2

=============================================================================
